---- MODULE Spec2Model ----
(***************************************************************************)
(* Model of lib/migration-healer.py: the MigrationHealer class (the two    *)
(* regular expressions of parse_migration_output, analyze_dependencies,    *)
(* _detect_corruption, generate_report, generate_heal_suggestions) and the *)
(* command line entry point main.                                          *)
(*                                                                         *)
(* A text is a sequence of characters; a character is a one-character      *)
(* string, except "ESC" (U+001B) and "U+0663" (ARABIC-INDIC DIGIT THREE),  *)
(* which name one character each. Positions are 1-based and a match is     *)
(* the inclusive span first..last, so Python's match.start() is first - 1  *)
(* and match.end() is last.                                                *)
(***************************************************************************)
EXTENDS Integers, Sequences, FiniteSets, TLC

VARIABLES argv, stdin, files, pc, source, migration_output, json_output,
          errors, deps, verdict, suggestions, stdout, exit_code, fault

vars == <<argv, stdin, files, pc, source, migration_output, json_output,
          errors, deps, verdict, suggestions, stdout, exit_code, fault>>

(***************************************************************************)
(* Characters                                                              *)
(***************************************************************************)

\* The characters of the model in code point order (Python compares strings
\* by code point).
Alphabet ==
    << "\t", "\n", "ESC", " ", "'", "-", ".", "0", "1", "2", "3", "4", "5", "6",
       "7", "8", "9", ":", ";", "A", "B", "C", "D", "E", "I", "L", "N", "O", "Q", "R", "S",
       "T", "X", "[", "]", "_", "a", "b", "c", "d", "e", "i", "l", "m", "n",
       "o", "p", "q", "r", "s", "t", "u", "x", "y", "U+0663" >>

ord(c) == CHOOSE k \in 1..Len(Alphabet) : Alphabet[k] = c

\* \s of the re module, on the characters of the model
IsSpace(c) == c \in {" ", "\n", "\t"}

\* str.isdigit(): true of every Unicode digit, not only of 0-9
IsDigit(c) ==
    c \in {"0", "1", "2", "3", "4", "5", "6", "7", "8", "9", "U+0663"}

\* re.IGNORECASE: the lower-case form of a character
Lower(c) ==
    CASE c = "A" -> "a" [] c = "B" -> "b" [] c = "C" -> "c" [] c = "D" -> "d"
      [] c = "E" -> "e" [] c = "I" -> "i" [] c = "L" -> "l" [] c = "N" -> "n"
      [] c = "O" -> "o" [] c = "Q" -> "q" [] c = "R" -> "r" [] c = "S" -> "s"
      [] c = "T" -> "t" [] c = "X" -> "x" [] OTHER -> c

(***************************************************************************)
(* Matching primitives                                                     *)
(***************************************************************************)

\* F applied to the value of v: a local variable of the code
With(v, F(_)) == CHOOSE r \in {F(a) : a \in {v}} : TRUE

Min(S) == CHOOSE x \in S : \A y \in S : x <= y
Max(S) == CHOOSE x \in S : \A y \in S : x >= y

\* the literal lit (given in lower case) matches t at position i, ignoring case
MatchLit(t, i, lit) ==
    /\ i >= 1
    /\ i + Len(lit) - 1 <= Len(t)
    /\ \A k \in 1..Len(lit) : Lower(t[i + k - 1]) = lit[k]

\* the character classes of the two patterns and of ansi_escape
InClass(class, c) ==
    CASE class = "\\s" -> IsSpace(c)
      [] class = "[^']" -> c /= "'"
      [] class = "[^'\\s\\.]" -> c /= "'" /\ ~IsSpace(c) /\ c /= "."
      [] class = "[^'\\s]" -> c /= "'" /\ ~IsSpace(c)
      [] class = "[0-9;]" ->
            c \in {"0", "1", "2", "3", "4", "5", "6", "7", "8", "9", ";"}

\* the first position at or after i whose character is not in the class
\* (Len(t) + 1 when the run reaches the end): the end of a greedy X+ / X*
RunEnd(t, i, class) ==
    CHOOSE j \in i..(Len(t) + 1) :
        /\ \A k \in i..(j - 1) : InClass(class, t[k])
        /\ (j = Len(t) + 1 \/ ~InClass(class, t[j]))

lit_table == <<"t", "a", "b", "l", "e">>
lit_doesnt == <<"d", "o", "e", "s", "n", "'", "t">>
lit_exist == <<"e", "x", "i", "s", "t">>
lit_sqlstate ==
    <<"s", "q", "l", "s", "t", "a", "t", "e", "[", "4", "2", "s", "0", "2", "]">>
lit_alter == <<"a", "l", "t", "e", "r">>
lit_create == <<"c", "r", "e", "a", "t", "e">>
lit_drop == <<"d", "r", "o", "p">>

\* DoesntExistAt with the pattern \s+(doesn't\s+)?exist
DoesntExistAt_OptionalDoesnt(t, i) ==
    With(RunEnd(t, i, "\\s"), LAMBDA j1 :
        IF j1 = i THEN 0
        ELSE IF MatchLit(t, j1, lit_exist) THEN j1 + Len(lit_exist) - 1
        ELSE IF ~MatchLit(t, j1, lit_doesnt) THEN 0
        ELSE With(RunEnd(t, j1 + Len(lit_doesnt), "\\s"), LAMBDA j3 :
                IF j3 > j1 + Len(lit_doesnt) /\ MatchLit(t, j3, lit_exist)
                THEN j3 + Len(lit_exist) - 1
                ELSE 0))

\* \s+doesn't\s+exist at position i: the position of its last character, 0
\* when it does not match
DoesntExistAt(t, i) ==
    With(RunEnd(t, i, "\\s"), LAMBDA j1 :
        IF ~(j1 > i /\ MatchLit(t, j1, lit_doesnt)) THEN 0
        ELSE With(RunEnd(t, j1 + Len(lit_doesnt), "\\s"), LAMBDA j3 :
                IF j3 > j1 + Len(lit_doesnt) /\ MatchLit(t, j3, lit_exist)
                THEN j3 + Len(lit_exist) - 1
                ELSE 0))

\* re.sub(r'\s+', '', s)
NotSpace(c) == ~IsSpace(c)
CollapseSpace(s) == SelectSeq(s, NotSpace)

\* str.strip()
Strip(s) ==
    With({k \in 1..Len(s) : ~IsSpace(s[k])}, LAMBDA keep :
        IF keep = {} THEN <<>> ELSE SubSeq(s, Min(keep), Max(keep)))

\* an escape sequence \x1b\[[0-9;]*m starts at position i of t
AnsiAt(t, i) ==
    /\ t[i] = "ESC"
    /\ i + 1 <= Len(t)
    /\ t[i + 1] = "["
    /\ \E j \in {RunEnd(t, i + 2, "[0-9;]")} : j <= Len(t) /\ t[j] = "m"

\* ansi_escape.sub('', output): every escape sequence from position i on is
\* removed, left to right
RECURSIVE StripAnsiFrom(_, _)
StripAnsiFrom(t, i) ==
    With({s \in i..Len(t) : AnsiAt(t, s)}, LAMBDA starts :
        IF starts = {} THEN SubSeq(t, i, Len(t))
        ELSE With(Min(starts), LAMBDA s :
                SubSeq(t, i, s - 1)
                  \o StripAnsiFrom(t, RunEnd(t, s + 2, "[0-9;]") + 1)))

StripAnsi(t) == StripAnsiFrom(t, 1)

(***************************************************************************)
(* parse_migration_output: the primary pattern                             *)
(*   Table\s+'([^']+)\.([^']+?)'\s+doesn't\s+exist                         *)
(***************************************************************************)

NoMatch == [ok |-> FALSE, first |-> 0, last |-> 0, g1 |-> <<>>, g2 |-> <<>>]

\* Groups 1 and 2 between the quotes at a and q, the match ending at last.
\* [^']+ is greedy and ends at the last dot that leaves both groups
\* non-empty; the lazy [^']+? cannot cross a quote, so it runs to q.
PrimaryGroups(t, i, a, q, last) ==
    With({d \in (a + 2)..(q - 2) : t[d] = "."}, LAMBDA dots :
        IF dots = {} THEN NoMatch
        ELSE With(Max(dots), LAMBDA d :
                [ok |-> TRUE, first |-> i, last |-> last,
                 g1 |-> SubSeq(t, a + 1, d - 1),
                 g2 |-> SubSeq(t, d + 1, q - 1)]))

\* the match of the primary pattern that starts at position i
PrimaryAt(t, i) ==
    IF ~MatchLit(t, i, lit_table) THEN NoMatch
    ELSE With(RunEnd(t, i + Len(lit_table), "\\s"), LAMBDA a :
        IF ~(a > i + Len(lit_table) /\ a <= Len(t) /\ t[a] = "'") THEN NoMatch
        ELSE With(RunEnd(t, a + 1, "[^']"), LAMBDA q :
            IF q > Len(t) THEN NoMatch
            ELSE With(DoesntExistAt(t, q + 1), LAMBDA last :
                IF last = 0 THEN NoMatch
                ELSE PrimaryGroups(t, i, a, q, last))))

\* primary_pattern.finditer(output): the matches from position pos on, left
\* to right and non-overlapping
RECURSIVE PrimaryMatches(_, _)
PrimaryMatches(t, pos) ==
    With({i \in pos..Len(t) : PrimaryAt(t, i).ok}, LAMBDA starts :
        IF starts = {} THEN <<>>
        ELSE With(PrimaryAt(t, Min(starts)), LAMBDA m :
                <<m>> \o PrimaryMatches(t, m.last + 1)))

\* program constants of the context window
ContextBefore == 200
ContextAfter == 100
RawErrorMax == 150

\* re.search(word\s+table, context, re.IGNORECASE)
SearchTableKeyword(context, word) ==
    \E p \in 1..Len(context) :
        /\ MatchLit(context, p, word)
        /\ \E j \in {RunEnd(context, p + Len(word), "\\s")} :
              j > p + Len(word) /\ MatchLit(context, j, lit_table)

\* ClassifyContext with the CREATE branch tested before the ALTER branch
ClassifyContext_CreateFirst(context) ==
    IF SearchTableKeyword(context, lit_create) THEN "CREATE"
    ELSE IF SearchTableKeyword(context, lit_alter) THEN "ALTER"
    ELSE IF SearchTableKeyword(context, lit_drop) THEN "DROP"
    ELSE "UNKNOWN"

\* lines 70-75: the first keyword found, in the order of the branches
ClassifyContext(context) ==
    IF SearchTableKeyword(context, lit_alter) THEN "ALTER"
    ELSE IF SearchTableKeyword(context, lit_create) THEN "CREATE"
    ELSE IF SearchTableKeyword(context, lit_drop) THEN "DROP"
    ELSE "UNKNOWN"

\* max(0, match.start() - 200), as a 0-based offset
ContextStart(first) ==
    IF first - 1 - ContextBefore > 0 THEN first - 1 - ContextBefore ELSE 0

\* the end of the slice output[context_start:match.end() + 100]
ContextEnd(output, last) ==
    IF last + ContextAfter < Len(output) THEN last + ContextAfter ELSE Len(output)

\* lines 65-75: the operation of the primary match first..last of output
InferOperation(output, first, last) ==
    With(SubSeq(output, ContextStart(first) + 1, ContextEnd(output, last)),
         LAMBDA context : ClassifyContext(context))

MigrationError(database, table, operation, raw_error) ==
    [database |-> database, table |-> table, operation |-> operation,
     error_type |-> "MISSING_TABLE", raw_error |-> raw_error]

\* lines 59-83: one MigrationError per primary match, in document order
PrimaryErrors(output) ==
    With(PrimaryMatches(output, 1), LAMBDA ms :
        [k \in 1..Len(ms) |->
            MigrationError(CollapseSpace(ms[k].g1), CollapseSpace(ms[k].g2),
                           InferOperation(output, ms[k].first, ms[k].last),
                           SubSeq(output, ms[k].first, ms[k].last))])

(***************************************************************************)
(* parse_migration_output: the SQLSTATE pattern                            *)
(*   SQLSTATE\[42S02\].*?Table\s+'?([^'\s\.]+)\.([^'\s]+)'?\s+doesn't\s+exist *)
(***************************************************************************)

\* the position after an optional quote at position a
SkipQuote(t, a) == IF a <= Len(t) /\ t[a] = "'" THEN a + 1 ELSE a

\* ([^'\s]+)'?\s+doesn't\s+exist after the dot at position c, group 1 being
\* b..c-1
TableClauseTail(t, j, b, c) ==
    With(RunEnd(t, c + 1, "[^'\\s]"), LAMBDA e :
        IF e = c + 1 THEN NoMatch
        ELSE With(DoesntExistAt(t, SkipQuote(t, e)), LAMBDA last :
                IF last = 0 THEN NoMatch
                ELSE [ok |-> TRUE, first |-> j, last |-> last,
                      g1 |-> SubSeq(t, b, c - 1), g2 |-> SubSeq(t, c + 1, e - 1)]))

\* Table\s+'?([^'\s\.]+)\.([^'\s]+)'?\s+doesn't\s+exist at position j
TableClauseAt(t, j) ==
    IF ~MatchLit(t, j, lit_table) THEN NoMatch
    ELSE With(RunEnd(t, j + Len(lit_table), "\\s"), LAMBDA a :
        IF a = j + Len(lit_table) THEN NoMatch
        ELSE With(SkipQuote(t, a), LAMBDA b :
            With(RunEnd(t, b, "[^'\\s\\.]"), LAMBDA c :
                IF ~(c > b /\ c <= Len(t) /\ t[c] = ".") THEN NoMatch
                ELSE TableClauseTail(t, j, b, c))))

\* The match of the SQLSTATE pattern that starts at position i: the lazy .*?
\* (re.DOTALL) stops at the first position where the Table clause matches.
SqlstateAt(t, i) ==
    IF ~MatchLit(t, i, lit_sqlstate) THEN NoMatch
    ELSE With({j \in (i + Len(lit_sqlstate))..Len(t) : TableClauseAt(t, j).ok},
              LAMBDA clauses :
                IF clauses = {} THEN NoMatch
                ELSE [TableClauseAt(t, Min(clauses)) EXCEPT !.first = i])

\* sqlstate_pattern.finditer(output)
RECURSIVE SqlstateMatches(_, _)
SqlstateMatches(t, pos) ==
    With({i \in pos..Len(t) : SqlstateAt(t, i).ok}, LAMBDA starts :
        IF starts = {} THEN <<>>
        ELSE With(SqlstateAt(t, Min(starts)), LAMBDA m :
                <<m>> \o SqlstateMatches(t, m.last + 1)))

Pair(e) == <<e.database, e.table>>

\* match.group(0)[:150]
Truncate(s, n) == IF Len(s) > n THEN SubSeq(s, 1, n) ELSE s

\* lines 97-105: one SQLSTATE match m, appended unless its pair is in seen;
\* st is [errors, seen]
AddSqlstate(output, st, m) ==
    With(<<Strip(m.g1), Strip(m.g2)>>, LAMBDA key :
        IF key \in st.seen THEN st
        ELSE [errors |-> Append(st.errors,
                            MigrationError(key[1], key[2], "UNKNOWN",
                                Truncate(SubSeq(output, m.first, m.last), RawErrorMax))),
              seen |-> st.seen \cup {key}])

\* lines 92-105: the loop over the SQLSTATE matches ms
RECURSIVE AddAllSqlstate(_, _, _)
AddAllSqlstate(output, st, ms) ==
    IF ms = <<>> THEN st
    ELSE With(AddSqlstate(output, st, Head(ms)), LAMBDA next :
            AddAllSqlstate(output, next, Tail(ms)))

\* line 91: seen = {(e.database, e.table) for e in errors}
SeenPairs(errs) == {Pair(errs[k]) : k \in 1..Len(errs)}

\* MigrationHealer.parse_migration_output
parse_migration_output(raw) ==
    With(StripAnsi(raw), LAMBDA output :
        With(PrimaryErrors(output), LAMBDA primary :
            With(SqlstateMatches(output, 1), LAMBDA ms :
                AddAllSqlstate(output,
                               [errors |-> primary, seen |-> SeenPairs(primary)],
                               ms).errors)))

(***************************************************************************)
(* analyze_dependencies                                                    *)
(***************************************************************************)

Range(s) == {s[k] : k \in 1..Len(s)}

\* a < b for Python strings: code point by code point, a proper prefix first
LessStr(a, b) ==
    \E k \in 1..(Len(b)) :
        /\ k <= Len(a) + 1
        /\ \A m \in 1..(k - 1) : a[m] = b[m]
        /\ (k = Len(a) + 1 \/ ord(a[k]) < ord(b[k]))

\* sorted(S, reverse=True)
RECURSIVE sorted_Descending(_)
sorted_Descending(S) ==
    IF S = {} THEN <<>>
    ELSE With(CHOOSE x \in S : \A y \in S \ {x} : LessStr(y, x), LAMBDA greatest :
            <<greatest>> \o sorted_Descending(S \ {greatest}))

\* sorted(S) for a set of strings
RECURSIVE sorted(_)
sorted(S) ==
    IF S = {} THEN <<>>
    ELSE With(CHOOSE x \in S : \A y \in S \ {x} : LessStr(x, y), LAMBDA least :
            <<least>> \o sorted(S \ {least}))

\* the keys of a dict filled in the order of s: each value once, in the
\* order of its first occurrence (dicts keep insertion order)
RECURSIVE InsertionOrder(_)
InsertionOrder(s) ==
    IF s = <<>> THEN <<>>
    ELSE With(InsertionOrder(SubSeq(s, 1, Len(s) - 1)), LAMBDA front :
            IF s[Len(s)] \in Range(front) THEN front
            ELSE Append(front, s[Len(s)]))

\* MigrationHealer.analyze_dependencies: the dict as the sequence of its
\* items, [database, tables]
analyze_dependencies(errs) ==
    With(InsertionOrder([k \in 1..Len(errs) |-> errs[k].database]), LAMBDA dbs :
        [n \in 1..Len(dbs) |->
            [database |-> dbs[n],
             tables |-> sorted({errs[k].table :
                                  k \in {x \in 1..Len(errs) : errs[x].database = dbs[n]}})]])

(***************************************************************************)
(* _detect_corruption                                                      *)
(***************************************************************************)

\* program constants of the heuristic
CorruptTableCount == 3
RepeatCount == 2

\* error_counts[key] of lines 222-225
ErrorCount(errs, key) == Cardinality({k \in 1..Len(errs) : Pair(errs[k]) = key})

\* lines 228-232: the loop stops at the first key counted twice or more whose
\* table is empty (table[0] raises) or starts with a digit
RepeatedCoreTable(errs, keys) ==
    With({n \in 1..Len(keys) :
            /\ ErrorCount(errs, keys[n]) >= RepeatCount
            /\ (keys[n][2] = <<>> \/ IsDigit(keys[n][2][1]))},
         LAMBDA stops :
            IF stops = {} THEN "False"
            ELSE IF keys[Min(stops)][2] = <<>> THEN "IndexError"
            ELSE "True")

\* MigrationHealer._detect_corruption: "True", "False", or "IndexError" when
\* table[0] is evaluated on an empty table name (line 231)
_detect_corruption(errs, dps) ==
    IF \E n \in 1..Len(dps) : Len(dps[n].tables) >= CorruptTableCount THEN "True"
    ELSE With(InsertionOrder([k \in 1..Len(errs) |-> Pair(errs[k])]), LAMBDA keys :
            RepeatedCoreTable(errs, keys))

(***************************************************************************)
(* generate_report                                                         *)
(***************************************************************************)

ReportVerifyMax == 3

\* tables[:n]
Take(s, n) == IF Len(s) > n THEN SubSeq(s, 1, n) ELSE s

\* database.split('-')[0] if '-' in database else database
ClientName(database) ==
    With({k \in 1..Len(database) : database[k] = "-"}, LAMBDA dashes :
        IF dashes = {} THEN database ELSE SubSeq(database, 1, Min(dashes) - 1))

NoReport == [kind |-> "none"]

\* lines 127-205: the report as its sections, not as the joined string
Report(errs, dps, is_corrupted) ==
    [kind |-> "analysis",
     found |-> Len(errs),
     databases |-> Len(dps),
     breakdown |-> dps,
     corruption_warning |-> is_corrupted,
     solution_1 |->
        IF is_corrupted
        THEN [n \in 1..Len(dps) |-> <<"nuke", ClientName(dps[n].database)>>]
        ELSE <<"ignore">>,
     check_status |-> [n \in 1..Len(dps) |-> dps[n].database],
     verify |-> [n \in 1..Len(dps) |->
                   [database |-> dps[n].database,
                    tables |-> Take(dps[n].tables, ReportVerifyMax)]],
     fresh_rebuild |-> ~is_corrupted,
     details |-> [k \in 1..Len(errs) |->
                    [database |-> errs[k].database,
                     table |-> errs[k].table,
                     operation |-> errs[k].operation,
                     type |-> errs[k].error_type]]]

\* MigrationHealer.generate_report: [raised, report]
generate_report(errs) ==
    IF errs = <<>> THEN [raised |-> "none", report |-> [kind |-> "clean"]]
    ELSE With(analyze_dependencies(errs), LAMBDA dps :
            With(_detect_corruption(errs, dps), LAMBDA is_corrupted :
                IF is_corrupted = "IndexError"
                THEN [raised |-> "IndexError", report |-> NoReport]
                ELSE [raised |-> "none",
                      report |-> Report(errs, dps, is_corrupted = "True")]))

(***************************************************************************)
(* generate_heal_suggestions                                               *)
(***************************************************************************)

VerifyMax == 5

RECURSIVE Flatten(_)
Flatten(ss) == IF ss = <<>> THEN <<>> ELSE Head(ss) \o Flatten(Tail(ss))

RECURSIVE SumLen(_)
SumLen(dps) == IF dps = <<>> THEN 0 ELSE Len(Head(dps).tables) + SumLen(Tail(dps))

CheckStatusAction(database) ==
    [priority |-> 1, type |-> "check_status",
     command |-> <<"migrate check", database>>,
     description |-> <<"Check migration status for", database>>]

HealAction ==
    [priority |-> 2, type |-> "heal",
     command |-> <<"migrate heal">>,
     description |-> <<"Attempt to run pending migrations">>]

VerifyAction(database, table) ==
    [priority |-> 3, type |-> "verify",
     command |-> <<"check table", database, table>>,
     description |-> <<"Verify if", table, "actually exists in", database>>]

\* VerifyActions without the [:5] slice
VerifyActions_Uncapped(item) ==
    [k \in 1..Len(item.tables) |-> VerifyAction(item.database, item.tables[k])]

\* lines 277-284: the verify actions of one database
VerifyActions(item) ==
    With(Take(item.tables, VerifyMax), LAMBDA shown :
        [k \in 1..Len(shown) |-> VerifyAction(item.database, shown[k])])

\* MigrationHealer.generate_heal_suggestions
generate_heal_suggestions(dps) ==
    [databases_affected |-> [n \in 1..Len(dps) |-> dps[n].database],
     total_missing_tables |-> SumLen(dps),
     actions |->
        [n \in 1..Len(dps) |-> CheckStatusAction(dps[n].database)]
          \o <<HealAction>>
          \o Flatten([n \in 1..Len(dps) |-> VerifyActions(dps[n])])]

(***************************************************************************)
(* Inputs                                                                  *)
(***************************************************************************)

\* bounds of the model
MaxFragments == 2
MaxErrors == 3
MaxTables == 6
MaxBefore == 2

w_Table == <<"T", "a", "b", "l", "e">>
w_doesnt == <<"d", "o", "e", "s", "n", "'", "t">>
w_exist == <<"e", "x", "i", "s", "t">>
w_SQLSTATE ==
    <<"S", "Q", "L", "S", "T", "A", "T", "E", "[", "4", "2", "S", "0", "2", "]">>
n_acme == <<"a", "c", "m", "e">>
n_b2 == <<"b", "2">>
n_06_o == <<"0", "6", "_", "o">>
n_t == <<"t">>

\* Table '<name>' doesn't exist
Phrase(name) ==
    w_Table \o <<" ", "'">> \o name \o <<"'", " ">> \o w_doesnt \o <<" ">> \o w_exist

\* The lines a migration run's output is made of in the model.
Fragments ==
    << \* Table 'acme.06_o' doesn't exist
       Phrase(n_acme \o <<".">> \o n_06_o) \o <<"\n">>,
       \* the identifier and the phrase split by line breaks
       w_Table \o <<" ", "'">> \o n_acme \o <<".", "\n", " ">> \o n_t \o <<"'", " ">>
         \o w_doesnt \o <<"\n", " ">> \o w_exist \o <<"\n">>,
       \* SQLSTATE[42S02]: Table 'acme.06_o' doesn't exist
       w_SQLSTATE \o <<":", " ">> \o Phrase(n_acme \o <<".">> \o n_06_o) \o <<"\n">>,
       \* SQLSTATE[42S02] table acme.06_o doesn't exist (no quotes)
       w_SQLSTATE \o <<" ", "t", "a", "b", "l", "e", " ">> \o n_acme \o <<".">> \o n_06_o
         \o <<" ">> \o w_doesnt \o <<" ">> \o w_exist \o <<"\n">>,
       \* Table 'acme. ' doesn't exist: a table name of white space only
       Phrase(n_acme \o <<".", " ">>) \o <<"\n">>,
       \* coloured and in upper case: ESC[31mTABLE 'b2.t' DOESN'TESC[0m EXIST
       <<"ESC", "[", "3", "1", "m", "T", "A", "B", "L", "E", " ", "'">> \o n_b2
         \o <<".">> \o n_t \o <<"'", " ", "D", "O", "E", "S", "N", "'", "T">>
         \o <<"ESC", "[", "0", "m", " ", "E", "X", "I", "S", "T", "\n">>,
       \* alter table t
       <<"a", "l", "t", "e", "r", " ", "t", "a", "b", "l", "e", " ", "t", "\n">>,
       \* Table 'b2.t' exists
       w_Table \o <<" ", "'">> \o n_b2 \o <<".">> \o n_t \o <<"'", " ">> \o w_exist
         \o <<"s", "\n">> >>

RECURSIVE SeqsUpTo(_, _)
SeqsUpTo(S, n) ==
    IF n = 0 THEN {<<>>}
    ELSE With(SeqsUpTo(S, n - 1), LAMBDA shorter :
            shorter \cup {Append(s, x) : s \in shorter, x \in S})

\* the texts of up to MaxFragments lines
Texts == {Flatten(fs) : fs \in SeqsUpTo(Range(Fragments), MaxFragments)}

\* sys.argv of the invocations <tool> <containerName> [inputFilePath] [--json]
\* and of those next to them
Argvs ==
    { <<"migration-healer.py">>,
      <<"migration-healer.py", "web">>,
      <<"migration-healer.py", "web", "out.log">>,
      <<"migration-healer.py", "web", "--json">>,
      <<"migration-healer.py", "web", "out.log", "--json">>,
      <<"migration-healer.py", "web", "--json", "out.log">>,
      <<"migration-healer.py", "web", "missing.log">>,
      <<"migration-healer.py", "--json">> }

\* the files that exist, each with its content
FileSystems ==
    {[path \in paths |-> text] :
        paths \in {{"out.log"}, {"out.log", "--json"}},
        text \in {<<>>, Fragments[1]}}

(***************************************************************************)
(* main                                                                    *)
(***************************************************************************)

NoSuggestions == [kind |-> "none"]

Init ==
    /\ argv \in Argvs
    /\ stdin \in Texts
    /\ files \in FileSystems
    /\ pc = "start"
    /\ source = "none"
    /\ migration_output = <<>>
    /\ json_output = FALSE
    /\ errors = <<>>
    /\ deps = <<>>
    /\ verdict = "none"
    /\ suggestions = NoSuggestions
    /\ stdout = NoReport
    /\ exit_code = -1
    /\ fault = "none"

\* lines 291-293
UsageError ==
    /\ pc = "start"
    /\ Len(argv) < 2
    /\ fault' = "usage"
    /\ exit_code' = 1
    /\ pc' = "exited"
    /\ UNCHANGED <<argv, stdin, files, source, migration_output, json_output,
                   errors, deps, verdict, suggestions, stdout>>

\* lines 298-300 and 305: the input is the file sys.argv[2]
ReadFile ==
    /\ pc = "start"
    /\ Len(argv) > 2
    /\ argv[3] \in DOMAIN files
    /\ migration_output' = files[argv[3]]
    /\ source' = argv[3]
    /\ json_output' = ("--json" \in Range(argv))
    /\ pc' = "read"
    /\ UNCHANGED <<argv, stdin, files, errors, deps, verdict, suggestions,
                   stdout, exit_code, fault>>

\* line 299: open() raises, nothing catches it and the interpreter exits 1
ReadFileFails ==
    /\ pc = "start"
    /\ Len(argv) > 2
    /\ argv[3] \notin DOMAIN files
    /\ source' = argv[3]
    /\ fault' = "FileNotFoundError"
    /\ exit_code' = 1
    /\ pc' = "exited"
    /\ UNCHANGED <<argv, stdin, files, migration_output, json_output, errors,
                   deps, verdict, suggestions, stdout>>

\* lines 301-302 and 305: the input is standard input
ReadStdin ==
    /\ pc = "start"
    /\ Len(argv) = 2
    /\ migration_output' = stdin
    /\ source' = "stdin"
    /\ json_output' = ("--json" \in Range(argv))
    /\ pc' = "read"
    /\ UNCHANGED <<argv, stdin, files, errors, deps, verdict, suggestions,
                   stdout, exit_code, fault>>

\* lines 307-308
Parse ==
    /\ pc = "read"
    /\ errors' = parse_migration_output(migration_output)
    /\ pc' = "parsed"
    /\ UNCHANGED <<argv, stdin, files, source, migration_output, json_output,
                   deps, verdict, suggestions, stdout, exit_code, fault>>

\* lines 310-327: the JSON document; main returns and the interpreter exits 0
JsonOutput ==
    /\ pc = "parsed"
    /\ json_output
    /\ \E dps \in {analyze_dependencies(errors)} :
         \E sug \in {generate_heal_suggestions(dps)} :
            /\ deps' = dps
            /\ suggestions' = sug
            /\ stdout' = [kind |-> "json",
                          error_count |-> Len(errors),
                          errors |-> [k \in 1..Len(errors) |->
                                        [database |-> errors[k].database,
                                         table |-> errors[k].table,
                                         operation |-> errors[k].operation,
                                         type |-> errors[k].error_type]],
                          dependencies |-> dps,
                          suggestions |-> sug]
    /\ exit_code' = 0
    /\ pc' = "exited"
    /\ UNCHANGED <<argv, stdin, files, source, migration_output, json_output,
                   errors, verdict, fault>>

\* ProseExitCode with the test len(errors) > 1
ProseExitCode_MoreThanOne(errs) == IF Len(errs) > 1 THEN 1 ELSE 0

\* line 334: 1 if errors else 0
ProseExitCode(errs) == IF errs /= <<>> THEN 1 ELSE 0

\* lines 328-334: the report; an exception of generate_report ends the
\* process with a traceback and exit code 1
ProseOutput ==
    /\ pc = "parsed"
    /\ ~json_output
    /\ \E r \in {generate_report(errors)} :
         IF r.raised /= "none"
         THEN /\ fault' = r.raised
              /\ exit_code' = 1
              /\ UNCHANGED stdout
         ELSE /\ stdout' = r.report
              /\ exit_code' = ProseExitCode(errors)
              /\ UNCHANGED fault
    /\ pc' = "exited"
    /\ UNCHANGED <<argv, stdin, files, source, migration_output, json_output,
                   errors, deps, verdict, suggestions>>

Next ==
    \/ UsageError
    \/ ReadFile
    \/ ReadFileFails
    \/ ReadStdin
    \/ Parse
    \/ JsonOutput
    \/ ProseOutput

Spec == Init /\ [][Next]_vars

(***************************************************************************)
(* analyze_dependencies and _detect_corruption on every record list        *)
(***************************************************************************)

n_u0663_x == <<"U+0663", "x">>

\* the records of the lists: two databases, five table names (one starting
\* with an ASCII digit, one with a non-ASCII digit, one empty)
ErrorRecords ==
    {MigrationError(database, table, "UNKNOWN", <<>>) :
        database \in {n_acme, n_b2},
        table \in {n_06_o, n_t, <<"b">>, n_u0663_x, <<>>}}

ErrorLists == SeqsUpTo(ErrorRecords, MaxErrors)

InitAnalyze ==
    /\ errors \in ErrorLists
    /\ pc = "call"
    /\ deps = <<>>
    /\ verdict = "none"
    /\ argv = <<>>
    /\ stdin = <<>>
    /\ files = <<>>
    /\ source = "none"
    /\ migration_output = <<>>
    /\ json_output = FALSE
    /\ suggestions = NoSuggestions
    /\ stdout = NoReport
    /\ exit_code = -1
    /\ fault = "none"

\* deps = self.analyze_dependencies(errors)
CallAnalyze ==
    /\ pc = "call"
    /\ deps' = analyze_dependencies(errors)
    /\ pc' = "analyzed"
    /\ UNCHANGED <<argv, stdin, files, source, migration_output, json_output,
                   errors, verdict, suggestions, stdout, exit_code, fault>>

\* is_corrupted = self._detect_corruption(errors, deps)
CallDetect ==
    /\ pc = "analyzed"
    /\ verdict' = _detect_corruption(errors, deps)
    /\ pc' = "returned"
    /\ UNCHANGED <<argv, stdin, files, source, migration_output, json_output,
                   errors, deps, suggestions, stdout, exit_code, fault>>

NextAnalyze == CallAnalyze \/ CallDetect

SpecAnalyze == InitAnalyze /\ [][NextAnalyze]_vars

(***************************************************************************)
(* generate_heal_suggestions on every dependency map                       *)
(***************************************************************************)

TablePool == << <<"a">>, <<"b">>, <<"c">>, <<"d">>, <<"e">>, <<"i">>, <<"l">> >>

\* the sorted lists of distinct names among the first MaxTables of the pool
TableLists == {sorted(S) : S \in SUBSET {TablePool[k] : k \in 1..MaxTables}}

\* the maps of up to two databases, in either order
DependencyMaps ==
    {<<>>}
      \cup {<<[database |-> d, tables |-> ts]>> : d \in {n_acme, n_b2}, ts \in TableLists}
      \cup {<<[database |-> ds[1], tables |-> ts1], [database |-> ds[2], tables |-> ts2]>> :
              ds \in {<<n_acme, n_b2>>, <<n_b2, n_acme>>},
              ts1 \in TableLists, ts2 \in TableLists}

InitHeal ==
    /\ deps \in DependencyMaps
    /\ pc = "call"
    /\ suggestions = NoSuggestions
    /\ errors = <<>>
    /\ verdict = "none"
    /\ argv = <<>>
    /\ stdin = <<>>
    /\ files = <<>>
    /\ source = "none"
    /\ migration_output = <<>>
    /\ json_output = FALSE
    /\ stdout = NoReport
    /\ exit_code = -1
    /\ fault = "none"

\* suggestions = healer.generate_heal_suggestions(deps)
CallHeal ==
    /\ pc = "call"
    /\ suggestions' = generate_heal_suggestions(deps)
    /\ pc' = "returned"
    /\ UNCHANGED <<argv, stdin, files, source, migration_output, json_output,
                   errors, deps, verdict, stdout, exit_code, fault>>

NextHeal == CallHeal

SpecHeal == InitHeal /\ [][NextHeal]_vars

(***************************************************************************)
(* parse_migration_output on texts longer than the context window          *)
(***************************************************************************)

Filler(n) == [k \in 1..n |-> "x"]

k_ALTER == <<"A", "L", "T", "E", "R", " ", "T", "A", "B", "L", "E">>
k_alter_nl == <<"a", "l", "t", "e", "r", "\n", "t", "a", "b", "l", "e">>
k_create == <<"c", "r", "e", "a", "t", "e", " ", "t", "a", "b", "l", "e">>
k_Drop == <<"D", "r", "o", "p", " ", "T", "a", "b", "l", "e">>

\* a keyword and the filler between it and what follows: with 189 characters
\* of filler an 11-character keyword starts exactly 200 characters before
\* the match
SegmentsBefore ==
    {kw \o Filler(gap) : kw \in {k_ALTER, k_create, k_Drop}, gap \in {0, 189, 190}}
      \cup {k_alter_nl}

\* nothing, or filler and a keyword after the match: with 89 characters of
\* filler an 11-character keyword ends exactly 100 characters after the match
SegmentsAfter ==
    {<<>>} \cup {Filler(gap) \o kw : kw \in {k_ALTER, k_create, k_Drop}, gap \in {89, 90}}

ContextTexts ==
    {Flatten(before) \o Phrase(n_acme \o <<".">> \o n_t) \o after :
        before \in SeqsUpTo(SegmentsBefore, MaxBefore), after \in SegmentsAfter}

InitContext ==
    /\ migration_output \in ContextTexts
    /\ pc = "call"
    /\ errors = <<>>
    /\ deps = <<>>
    /\ verdict = "none"
    /\ argv = <<>>
    /\ stdin = <<>>
    /\ files = <<>>
    /\ source = "none"
    /\ json_output = FALSE
    /\ suggestions = NoSuggestions
    /\ stdout = NoReport
    /\ exit_code = -1
    /\ fault = "none"

\* errors = healer.parse_migration_output(migration_output)
CallParse ==
    /\ pc = "call"
    /\ errors' = parse_migration_output(migration_output)
    /\ pc' = "returned"
    /\ UNCHANGED <<argv, stdin, files, source, migration_output, json_output,
                   deps, verdict, suggestions, stdout, exit_code, fault>>

NextContext == CallParse

SpecContext == InitContext /\ [][NextContext]_vars

(***************************************************************************)
(* Properties                                                              *)
(***************************************************************************)

\* main has read its input: neither the usage error nor a failed open()
InputRead == pc /= "start" /\ fault \notin {"usage", "FileNotFoundError"}

\* how many records of errs have the pair
Occurrences(errs, pair) == Cardinality({k \in 1..Len(errs) : Pair(errs[k]) = pair})

\* the pairs the text reports in the primary phrasing
PrimaryPairs(output) ==
    With(PrimaryMatches(output, 1), LAMBDA ms :
        {<<CollapseSpace(ms[k].g1), CollapseSpace(ms[k].g2)>> : k \in 1..Len(ms)})

\* the pairs the text reports in the SQLSTATE[42S02] phrasing
SqlstatePairs(output) ==
    With(SqlstateMatches(output, 1), LAMBDA ms :
        {<<Strip(ms[k].g1), Strip(ms[k].g2)>> : k \in 1..Len(ms)})

\* C1: a pair reported both in the primary phrasing and in the SQLSTATE[42S02]
\* phrasing has exactly one MigrationError in the sequence that
\* parse_migration_output returns.
C1_DedupAcrossDialects ==
    pc = "parsed" =>
        \A pair \in PrimaryPairs(StripAnsi(migration_output))
                      \cap SqlstatePairs(StripAnsi(migration_output)) :
            Occurrences(errors, pair) = 1

\* Rule A: some database of the map has 3 or more distinct table names
RuleA(dps) == \E n \in 1..Len(dps) : Cardinality(Range(dps[n].tables)) >= 3

\* Rule B: some pair occurs 2 or more times and its table name starts with
\* an ASCII digit
RuleB(errs) ==
    \E k \in 1..Len(errs) :
        /\ Occurrences(errs, Pair(errs[k])) >= 2
        /\ errs[k].table /= <<>>
        /\ errs[k].table[1] \in {"0", "1", "2", "3", "4", "5", "6", "7", "8", "9"}

\* C2: with deps = analyze_dependencies(errors), _detect_corruption returns
\* true exactly when Rule A or Rule B holds, and false otherwise.
C2_DetectCorruption ==
    pc = "returned" =>
        verdict = (IF RuleA(deps) \/ RuleB(errors) THEN "True" ELSE "False")

\* C3: in prose mode parse_migration_output followed by generate_report
\* returns a report for every text; nothing is raised.
C3_AnalysisTotal ==
    (pc = "exited" /\ InputRead /\ ~json_output) =>
        (fault = "none" /\ stdout.kind \in {"clean", "analysis"})

\* C4: once the input is read, prose mode exits 0 if and only if
\* parse_migration_output returned no error and 1 if it returned one or
\* more; JSON mode exits 0 whether or not errors were found.
C4_ExitCodeContract ==
    (pc = "exited" /\ InputRead) =>
        IF "--json" \in Range(argv)
        THEN exit_code = 0
        ELSE /\ (exit_code = 0 <=> errors = <<>>)
             /\ (exit_code = 1 <=> errors /= <<>>)

\* JSON mode ends with exit code 0 although errors were found
C4_Witness ==
    /\ pc = "exited"
    /\ InputRead
    /\ "--json" \in Range(argv)
    /\ errors /= <<>>
    /\ exit_code = 0

\* sys.argv has the form <tool> <containerName> [inputFilePath] [--json]
IsCliForm(a) ==
    /\ Len(a) \in 2..4
    /\ Len(a) = 4 => (a[3] /= "--json" /\ a[4] = "--json")

\* the input source that form names: the file path when one is supplied
SuppliedSource(a) == IF Len(a) >= 3 /\ a[3] /= "--json" THEN a[3] ELSE "stdin"

\* C5: the migration output is read from inputFilePath when one is supplied
\* and from standard input when none is, whether or not --json is present;
\* --json selects the output mode and is never the input file path.
C5_InputSourceSelection ==
    (pc /= "start" /\ IsCliForm(argv)) =>
        /\ source = SuppliedSource(argv)
        /\ (pc = "read" => json_output = ("--json" \in Range(argv)))

\* t contains doesn't, one or more white space characters, exist (in any case)
HasPhrase(t) ==
    \E p \in 1..Len(t) :
        /\ MatchLit(t, p, lit_doesnt)
        /\ \E j \in (p + Len(lit_doesnt) + 1)..Len(t) :
             /\ \A k \in (p + Len(lit_doesnt))..(j - 1) : IsSpace(t[k])
             /\ MatchLit(t, j, lit_exist)

\* t contains the phrase "doesn't exist" as written
HasLiteralPhrase(t) ==
    \E p \in 1..Len(t) :
        /\ p + 12 <= Len(t)
        /\ SubSeq(t, p, p + 12) = w_doesnt \o <<" ">> \o w_exist

\* C6 as stated: an input with zero occurrences of the phrase
\* "doesn't exist" gives an empty sequence and exit code 0.
C6_NoLiteralPhraseNoErrors ==
    (pc \in {"parsed", "exited"} /\ InputRead /\ ~HasLiteralPhrase(migration_output)) =>
        (errors = <<>> /\ (pc = "exited" => exit_code = 0))

\* C6 as amended: an input that, with its ANSI escape sequences removed, has no
\* occurrence in any case of doesn't, white space, exist gives an empty
\* sequence and exit code 0.
C6_NoPhraseNoErrors ==
    (pc \in {"parsed", "exited"} /\ InputRead /\ ~HasPhrase(StripAnsi(migration_output))) =>
        (errors = <<>> /\ (pc = "exited" => exit_code = 0))

\* a prose run over a text that is not empty and has no such phrase
C6_Witness ==
    /\ pc = "exited"
    /\ InputRead
    /\ ~json_output
    /\ migration_output /= <<>>
    /\ ~HasPhrase(StripAnsi(migration_output))
    /\ errors = <<>>
    /\ exit_code = 0

\* C7: analyze_dependencies returns a map whose keys are exactly the
\* databases of the records, each once, and whose value for a database is
\* exactly the set of its table names in ascending order, each name once.
C7_DependenciesSortedDistinct ==
    pc \in {"analyzed", "returned"} =>
        /\ {deps[n].database : n \in 1..Len(deps)}
             = {errors[k].database : k \in 1..Len(errors)}
        /\ \A n, m \in 1..Len(deps) : deps[n].database = deps[m].database => n = m
        /\ \A n \in 1..Len(deps) :
             /\ Range(deps[n].tables)
                  = {errors[k].table :
                       k \in {x \in 1..Len(errors) : errors[x].database = deps[n].database}}
             /\ \A i, j \in 1..Len(deps[n].tables) :
                  i < j => LessStr(deps[n].tables[i], deps[n].tables[j])

\* three records of one database: a repeated pair, and two names out of order
C7_Witness ==
    /\ pc = "analyzed"
    /\ Len(errors) = 3
    /\ Len(deps) = 1
    /\ Len(deps[1].tables) = 2
    /\ LessStr(errors[2].table, errors[1].table)

\* min(5, n)
Capped(n) == IF n > 5 THEN 5 ELSE n

\* the number of verify actions of the databases before the k-th
RECURSIVE VerifyBefore(_, _)
VerifyBefore(dps, k) ==
    IF k <= 1 THEN 0
    ELSE VerifyBefore(dps, k - 1) + Capped(Len(dps[k - 1].tables))

RECURSIVE TablesUpTo(_, _)
TablesUpTo(dps, k) ==
    IF k = 0 THEN 0 ELSE TablesUpTo(dps, k - 1) + Len(dps[k].tables)

\* C8: the actions are one check_status (priority 1) per database in deps
\* order, then one heal (priority 2), then per database in deps order one
\* verify (priority 3) for each of its first min(5, n) tables in order; the
\* priorities never decrease, the length is |databases| + 1 + the sum of
\* min(5, |tables|), and total_missing_tables is the uncapped sum.
C8_ActionsLayout ==
    pc = "returned" =>
        \E actions \in {suggestions.actions} : \E n \in {Len(deps)} :
            /\ Len(actions) = n + 1 + VerifyBefore(deps, n + 1)
            /\ \A k \in 1..n :
                 /\ actions[k].type = "check_status"
                 /\ actions[k].priority = 1
                 /\ actions[k].command = <<"migrate check", deps[k].database>>
            /\ actions[n + 1].type = "heal"
            /\ actions[n + 1].priority = 2
            /\ \A k \in 1..n : \A j \in 1..Capped(Len(deps[k].tables)) :
                 \E a \in {actions[n + 1 + VerifyBefore(deps, k) + j]} :
                    /\ a.type = "verify"
                    /\ a.priority = 3
                    /\ a.command = <<"check table", deps[k].database, deps[k].tables[j]>>
            /\ \A i \in 1..(Len(actions) - 1) : actions[i].priority <= actions[i + 1].priority
            /\ suggestions.total_missing_tables = TablesUpTo(deps, n)

\* two databases, the first with more than 5 tables
C8_Witness ==
    /\ pc = "returned"
    /\ Len(deps) = 2
    /\ Len(deps[1].tables) > 5
    /\ Len(deps[2].tables) >= 1
    /\ suggestions.total_missing_tables > Len(suggestions.actions) - 3

\* the window of a match first..last: from 200 characters before its start
\* to 100 characters after its end
WindowLow(first) == IF first - 200 > 1 THEN first - 200 ELSE 1
WindowHigh(output, last) == IF last + 100 < Len(output) THEN last + 100 ELSE Len(output)

\* word, one or more white space characters, table (in any case) lies
\* within lo..hi of output
KeywordWithin(output, lo, hi, word) ==
    \E p \in lo..hi :
        /\ MatchLit(output, p, word)
        /\ \E j \in (p + Len(word) + 1)..hi :
             /\ \A k \in (p + Len(word))..(j - 1) : IsSpace(output[k])
             /\ MatchLit(output, j, lit_table)
             /\ j + Len(lit_table) - 1 <= hi

\* word, one space, table (in any case) lies within lo..hi of output
LiteralKeywordWithin(output, lo, hi, word) ==
    \E p \in lo..hi :
        /\ MatchLit(output, p, word \o <<" ">> \o lit_table)
        /\ p + Len(word) + Len(lit_table) <= hi

OperationBy(Within(_)) ==
    IF Within(lit_alter) THEN "ALTER"
    ELSE IF Within(lit_create) THEN "CREATE"
    ELSE IF Within(lit_drop) THEN "DROP"
    ELSE "UNKNOWN"

Stripped(s) == s = <<>> \/ (~IsSpace(s[1]) /\ ~IsSpace(s[Len(s)]))

\* C10: every MigrationError returned by parse_migration_output has a
\* non-empty, stripped database and table, an operation among CREATE, ALTER,
\* DROP and UNKNOWN, and the error type MISSING_TABLE.
C10_RecordsWellFormed ==
    pc = "parsed" =>
        \A k \in 1..Len(errors) :
            /\ errors[k].database /= <<>>
            /\ errors[k].table /= <<>>
            /\ Stripped(errors[k].database)
            /\ Stripped(errors[k].table)
            /\ errors[k].operation \in {"CREATE", "ALTER", "DROP", "UNKNOWN"}
            /\ errors[k].error_type = "MISSING_TABLE"

====
